---- MODULE Spec2Model ----
(***************************************************************************)
(* Model of build_sic.py (listing filter, identifier reconciliation,      *)
(* throttled fetch loop, run metadata) and extract_shares.py (identifier   *)
(* padding, shares extraction).                                            *)
(*                                                                         *)
(* Strings the code inspects character by character (symbols, tickers,     *)
(* identifiers, flag fields) are sequences of one-character strings.       *)
(* Display names, which the code only matches against word patterns, are   *)
(* sequences of whitespace-separated words.  Times are milliseconds.       *)
(***************************************************************************)
EXTENDS Integers, Sequences, FiniteSets, TLC

VARIABLES
    pc,             \* position of the run
    nas_rows,       \* rows parsed from nasdaqlisted.txt
    oth_rows,       \* rows parsed from otherlisted.txt
    tickers_raw,    \* records of company_tickers.json, in document order
    eligible,       \* build_eligible_symbols result: <<sym, exchange>> pairs
    cik_to_ticker,  \* load_ticker_map result: dict as <<key, value>> pairs
    sym_to_cik,     \* make_symbol_to_cik result: dict as <<key, value>> pairs
    idx,            \* number of sym_to_cik items the fetch loop has taken
    ok,             \* main: ok
    miss,           \* main: miss
    csv,            \* data rows written to latest-sic-by-symbol.csv
    missed,         \* history: symbols counted in miss
    since_tick,     \* perf_counter() - last_tick
    since_req,      \* time since the previous requests.get started, -1: none yet
    gap,            \* time between the starts of the last two requests, -1: none
    attempt,        \* http_get_json: iterations of "for _ in range(tries)" begun
    backoff,        \* http_get_json: backoff, in ms
    j,              \* http_get_json return value
    all_retryable,  \* history: every attempt of this call failed retryably
    fatal_seen,     \* history: this call got a non-200, non-retryable status
    meta,           \* meta-sic.json contents, NoMeta before it is written
    meta_writes,    \* number of times meta-sic.json was written
    raw,            \* pad_cik10 argument
    padded,         \* build_sic.pad_cik10(raw)
    padded_x,       \* extract_shares.pad_cik10(raw)
    doc,            \* companyfacts document of one entity
    out_rows,       \* extract_shares_from_file result as written by main
    nas_file,       \* contents of nasdaqlisted.txt
    oth_file        \* contents of otherlisted.txt

vars == <<pc, nas_rows, oth_rows, tickers_raw, eligible, cik_to_ticker,
          sym_to_cik, idx, ok, miss, csv, missed, since_tick, since_req, gap,
          attempt, backoff, j, all_retryable, fatal_seen, meta, meta_writes,
          raw, padded, padded_x, doc, out_rows, nas_file, oth_file>>

pipeline_vars == <<nas_rows, oth_rows, tickers_raw, eligible, cik_to_ticker,
                   sym_to_cik>>
fetch_vars == <<idx, ok, miss, csv, missed, since_tick, since_req, gap,
                attempt, backoff, j, all_retryable, fatal_seen, meta,
                meta_writes>>
pad_vars == <<raw, padded, padded_x>>
extract_vars == <<doc, out_rows>>
file_vars == <<nas_file, oth_file>>

---------------------------------------------------------------------------
(* Generic sequence helpers.                                               *)

Range(s) == {s[i] : i \in DOMAIN s}

SeqsUpTo(S, n) == UNION {[1..k -> S] : k \in 0..n}

RECURSIVE Filter(_, _)
Filter(s, keep) ==
    IF s = <<>> THEN <<>>
    ELSE IF Head(s) \in keep THEN <<Head(s)>> \o Filter(Tail(s), keep)
    ELSE Filter(Tail(s), keep)

EndsWith(s, suf) ==
    /\ Len(s) >= Len(suf)
    /\ SubSeq(s, Len(s) - Len(suf) + 1, Len(s)) = suf

---------------------------------------------------------------------------
(* Characters.                                                             *)

AsciiDigits == {"0", "1", "2", "3", "4", "5", "6", "7", "8", "9"}
\* "u0663" stands for ARABIC-INDIC DIGIT THREE (category Nd), "u00B2" for
\* SUPERSCRIPT TWO (category No, str.isdigit() is True, \d does not match).
UnicodeNd == {"u0663"}
UnicodeNo == {"u00B2"}
Whitespace == {" ", "\t"}

\* str.upper() on the characters the model uses
UpperChar(c) ==
    CASE c = "a" -> "A"
      [] c = "b" -> "B"
      [] c = "c" -> "C"
      [] c = "u" -> "U"
      [] c = "w" -> "W"
      [] c = "s" -> "S"
      [] c = "y" -> "Y"
      [] OTHER -> c

Upper(s) == [i \in DOMAIN s |-> UpperChar(s[i])]

RECURSIVE LStrip(_)
LStrip(s) ==
    IF s # <<>> /\ Head(s) \in Whitespace THEN LStrip(Tail(s)) ELSE s

RECURSIVE RStrip(_)
RStrip(s) ==
    IF s # <<>> /\ s[Len(s)] \in Whitespace
    THEN RStrip(SubSeq(s, 1, Len(s) - 1)) ELSE s

Strip(s) == RStrip(LStrip(s))

---------------------------------------------------------------------------
(* build_sic.py helpers.                                                   *)

CikWidth == 10

Zeros(n) == [i \in 1..n |-> "0"]

LastN(s, n) == IF Len(s) <= n THEN s ELSE SubSeq(s, Len(s) - n + 1, Len(s))

\* The characters str.isdigit() accepts (build_sic.pad_cik10).
IsDigitChars == AsciiDigits \cup UnicodeNd \cup UnicodeNo

\* The characters the str pattern \D does not match (extract_shares.pad_cik10).
ReDigitChars == AsciiDigits \cup UnicodeNd

\* ("0000000000" + s)[-10:] if s else ""
PadTail(s) == IF s # <<>> THEN LastN(Zeros(CikWidth) \o s, CikWidth) ELSE <<>>

\* build_sic.pad_cik10
pad_cik10(v) == PadTail(Filter(v, IsDigitChars))

\* extract_shares.pad_cik10 (cik or "": a falsy cik is the empty string)
pad_cik10_x(v) == PadTail(Filter(v, ReDigitChars))

\* (s or "").strip().upper().replace(" ", "")
norm_symbol(s) == Filter(Upper(Strip(s)), Range(Upper(s)) \ {" "})

\* str.lower() on the words of the model's name vocabulary
LowerWord(w) ==
    CASE w = "Corp" -> "corp"
      [] w = "Trust" -> "trust"
      [] w = "TRUST" -> "trust"
      [] w = "Fund" -> "fund"
      [] w = "American" -> "american"
      [] w = "Depositary" -> "depositary"
      [] w = "Shares" -> "shares"
      [] w = "Preferred" -> "preferred"
      [] w = "Notes" -> "notes"
      [] w = "Warrants" -> "warrants"
      [] w = "Units" -> "units"
      [] w = "Limited" -> "limited"
      [] w = "Partnership" -> "partnership"
      [] w = "Help" -> "help"
      [] w = "L.P." -> "l.p."
      [] OTHER -> w

\* Words w (lower case, free of "-" and "/") for which
\* (^|[\s\-])(warrant|warrants|right|unit|units|ws|wt|wts)(s)?($|[\s\-/])
\* matches " w ": the word is one alternative, optionally followed by "s".
RwuWords == {"warrant", "warrants", "warrantss", "right", "rights", "unit",
             "units", "unitss", "ws", "wss", "wt", "wts", "wtss"}

\* [-\.](WS|W|WT|RT|U)$ on the symbol
RwuSuffixes == {<<p, "W", "S">> : p \in {"-", "."}}
          \cup {<<p, "W">> : p \in {"-", "."}}
          \cup {<<p, "W", "T">> : p \in {"-", "."}}
          \cup {<<p, "R", "T">> : p \in {"-", "."}}
          \cup {<<p, "U">> : p \in {"-", "."}}

is_right_warrant_unit(name, symbol) ==
    \/ \E i \in DOMAIN name : LowerWord(name[i]) \in RwuWords
    \/ \E suf \in RwuSuffixes : EndsWith(Upper(symbol), suf)

\* Words of the vocabulary (lower case) in which one of
\* etn\b fund\b trust\b preferred\b preference\b l\.?p\.?\b closed[- ]?end
\* matches: the alternatives carry no leading \b, so a word that merely
\* ends in one of them ("help" ends in "lp") matches too.
FundlikeWords == {"etn", "fund", "trust", "preferred", "preference", "lp",
                  "l.p.", "help", "closed-end", "closedend"}

\* "closed end" and "limited partnership" span two words
FundlikePairs == {<<"closed", "end">>, <<"limited", "partnership">>}

\* EXTRA_FUNDLIKE_PAT.search(name), re.I
is_extra_fundlike(name) ==
    \/ \E i \in DOMAIN name : LowerWord(name[i]) \in FundlikeWords
    \/ \E i \in 1..(Len(name) - 1) :
           <<LowerWord(name[i]), LowerWord(name[i + 1])>> \in FundlikePairs

\* flags.split("|")
RECURSIVE Split(_)
Split(s) ==
    IF \E i \in DOMAIN s : s[i] = "|"
    THEN LET i == CHOOSE k \in DOMAIN s :
                      s[k] = "|" /\ \A m \in 1..(k - 1) : s[m] # "|"
         IN <<SubSeq(s, 1, i - 1)>> \o Split(SubSeq(s, i + 1, Len(s)))
    ELSE <<s>>

OrN(part) == IF part = <<>> THEN <<"N">> ELSE part

\* lines 202-206
EtfFlag(flags) ==
    IF flags = <<>> THEN <<"N">> ELSE OrN(Split(flags)[1])

TestFlag(flags) ==
    IF flags = <<>> THEN <<"N">>
    ELSE LET parts == Split(flags)
         IN OrN(IF Len(parts) > 1 THEN parts[2] ELSE <<"N">>)

AllowedExchanges == {"Nasdaq", "NYSE", "NYSE American"}

\* The body of the filter loop, lines 196-219: TRUE when the row is appended.
KeepsRow(row) ==
    /\ row.exchange \in AllowedExchanges
    /\ norm_symbol(row.symbol) # <<>>
    /\ Upper(EtfFlag(row.flags)) # <<"Y">>
    /\ Upper(TestFlag(row.flags)) # <<"Y">>
    /\ ~is_right_warrant_unit(row.name, norm_symbol(row.symbol))
    /\ ~is_extra_fundlike(row.name)

\* lines 192-221: out
RECURSIVE FilterRows(_)
FilterRows(rows) ==
    IF rows = <<>> THEN <<>>
    ELSE IF KeepsRow(Head(rows))
         THEN <<<<norm_symbol(Head(rows).symbol), Head(rows).exchange>>>>
              \o FilterRows(Tail(rows))
         ELSE FilterRows(Tail(rows))

\* De-duplication through a dict {sym: exchange}: a later duplicate keeps
\* the first position and overwrites the exchange
RECURSIVE DedupOverwriteFold(_, _)
DedupOverwriteFold(acc, out) ==
    IF out = <<>> THEN acc
    ELSE DedupOverwriteFold(
             IF \E i \in DOMAIN acc : acc[i][1] = Head(out)[1]
             THEN [i \in DOMAIN acc |->
                      IF acc[i][1] = Head(out)[1] THEN Head(out) ELSE acc[i]]
             ELSE Append(acc, Head(out)),
             Tail(out))

Dedup_overwrite(out, seen) == DedupOverwriteFold(<<>>, out)

\* lines 224-230: uniq
RECURSIVE Dedup(_, _)
Dedup(out, seen) ==
    IF out = <<>> THEN <<>>
    ELSE IF Head(out)[1] \in seen THEN Dedup(Tail(out), seen)
         ELSE <<Head(out)>> \o Dedup(Tail(out), seen \cup {Head(out)[1]})

build_eligible_symbols(nas, oth) == Dedup(FilterRows(nas \o oth), {})

---------------------------------------------------------------------------
(* Python dicts: sequences of <<key, value>> in insertion order.           *)

DictKeys(d) == {d[i][1] : i \in DOMAIN d}

\* d[k] = v: a present key keeps its position
DictPut(d, k, v) ==
    IF k \in DictKeys(d)
    THEN [i \in DOMAIN d |-> IF d[i][1] = k THEN <<k, v>> ELSE d[i]]
    ELSE Append(d, <<k, v>>)

\* d.get(k) where only the truthiness of a miss matters: <<>> when absent
DictGet(d, k) ==
    IF k \in DictKeys(d)
    THEN (CHOOSE p \in Range(d) : p[1] = k)[2]
    ELSE <<>>

\* rec.get("cik_str") or rec.get("cik") or rec.get("cikStr")
RecCik(rec) ==
    IF rec.cik_str # <<>> THEN rec.cik_str
    ELSE IF rec.cik # <<>> THEN rec.cik
    ELSE rec.cikStr

\* lines 167-174 and 176-181: one record of the table
TickerMapStep(tmap, rec) ==
    IF RecCik(rec) = <<>> \/ rec.ticker = <<>> THEN tmap
    ELSE DictPut(tmap, pad_cik10(RecCik(rec)), norm_symbol(rec.ticker))

RECURSIVE TickerMapFold(_, _)
TickerMapFold(tmap, recs) ==
    IF recs = <<>> THEN tmap
    ELSE TickerMapFold(TickerMapStep(tmap, Head(recs)), Tail(recs))

\* load_ticker_map: a document that is neither an object nor an array gives {}
load_ticker_map(table) ==
    IF table.shape \in {"dict", "list"} THEN TickerMapFold(<<>>, table.recs)
    ELSE <<>>

\* {v: k for k, v in cik_to_ticker.items()}
RECURSIVE Invert(_, _)
Invert(acc, d) ==
    IF d = <<>> THEN acc
    ELSE Invert(DictPut(acc, Head(d)[2], Head(d)[1]), Tail(d))

RECURSIVE MapSymbols(_, _, _)
MapSymbols(acc, elig, ticker_to_cik) ==
    IF elig = <<>> THEN acc
    ELSE LET sym == Head(elig)[1]
             cik == DictGet(ticker_to_cik, sym)
         IN MapSymbols(IF cik # <<>> THEN DictPut(acc, sym, cik) ELSE acc,
                       Tail(elig), ticker_to_cik)

make_symbol_to_cik(elig, c2t) == MapSymbols(<<>>, elig, Invert(<<>>, c2t))

---------------------------------------------------------------------------
(* http_get_json and the fetch loop of main.                               *)

\* range(tries) one short
tries_short == 6 - 1

tries == 6
InitialBackoff == 2000
OtherStatusSleep == 500
per_request_delay == 130

\* backoff *= 1.6, rounded down to a whole millisecond
GrowBackoff(b) == (b * 16) \div 10

\* line 256
BackoffStatuses == {403, 429, 502, 503, 504}

\* What one requests.get can end in: status 0 stands for a raised exception
\* (connection error, timeout).  The body matters for status 200 only:
\* "dict" a JSON object with members, "falsy" a JSON value that is falsy in
\* Python ({} [] "" 0 null false), "nondict" a truthy JSON value that is not
\* an object, "undecodable" a body r.json() raises on.
Bodies == {"dict", "falsy", "nondict", "undecodable"}
Statuses == {0, 200, 403, 404, 429, 500, 502, 503, 504}
Outcomes == {[status |-> st, body |-> b] : st \in Statuses \ {200}, b \in {"none"}}
       \cup {[status |-> 200, body |-> b] : b \in Bodies}

\* Durations of one requests.get, shorter and longer than per_request_delay
Durations == {10, 200}

\* line 254-255: the call returns r.json()
ReturnsJson(o) == o.status = 200 /\ o.body # "undecodable"

\* the except branch: requests.get or r.json() raised
Raised(o) == o.status = 0 \/ (o.status = 200 /\ o.body = "undecodable")

\* lines 256-263: the sleep that follows a failed attempt
SleepAfter(o, b) ==
    IF Raised(o) \/ o.status \in BackoffStatuses THEN b ELSE OtherStatusSleep

BackoffAfter(o, b) ==
    IF Raised(o) \/ o.status \in BackoffStatuses THEN GrowBackoff(b) ELSE b

NoMeta == [written |-> FALSE]

\* "symbols_mapped" filled from the eligible list instead of the mapping
MetaRecord_eligible(elig, s2c, n_ok, n_miss) ==
    [written |-> TRUE,
     eligible |-> Len(elig),
     symbols_mapped |-> Len(elig),
     rows_written |-> n_ok,
     rows_missing |-> n_miss]

\* lines 319-331 (the counters)
MetaRecord(elig, s2c, n_ok, n_miss) ==
    [written |-> TRUE,
     eligible |-> Len(elig),
     symbols_mapped |-> Len(s2c),
     rows_written |-> n_ok,
     rows_missing |-> n_miss]

\* line 282
BuildEligible ==
    /\ pc = "start"
    /\ eligible' = build_eligible_symbols(nas_rows, oth_rows)
    /\ pc' = "eligible"
    /\ UNCHANGED <<nas_rows, oth_rows, tickers_raw, cik_to_ticker, sym_to_cik>>
    /\ UNCHANGED <<fetch_vars, pad_vars, extract_vars, file_vars>>

\* line 286
LoadTickerMap ==
    /\ pc = "eligible"
    /\ cik_to_ticker' = load_ticker_map(tickers_raw)
    /\ pc' = "tickers"
    /\ UNCHANGED <<nas_rows, oth_rows, tickers_raw, eligible, sym_to_cik>>
    /\ UNCHANGED <<fetch_vars, pad_vars, extract_vars, file_vars>>

\* lines 287-298
MakeSymbolToCik ==
    /\ pc = "tickers"
    /\ sym_to_cik' = make_symbol_to_cik(eligible, cik_to_ticker)
    /\ pc' = "loop"
    /\ UNCHANGED <<nas_rows, oth_rows, tickers_raw, eligible, cik_to_ticker>>
    /\ UNCHANGED <<fetch_vars, pad_vars, extract_vars, file_vars>>

\* lines 303-311 up to the call: take the next item, throttle, enter
\* http_get_json (lines 246-247)
Throttle ==
    /\ pc = "loop"
    /\ idx < Len(sym_to_cik)
    /\ idx' = idx + 1
    /\ LET slept == IF since_tick < per_request_delay
                    THEN per_request_delay - since_tick ELSE 0
       IN since_req' = IF since_req < 0 THEN since_req ELSE since_req + slept
    /\ since_tick' = 0
    /\ attempt' = 0
    /\ backoff' = InitialBackoff
    /\ all_retryable' = TRUE
    /\ fatal_seen' = FALSE
    /\ pc' = "attempt"
    /\ UNCHANGED <<ok, miss, csv, missed, gap, j, meta, meta_writes>>
    /\ UNCHANGED <<pipeline_vars, pad_vars, extract_vars, file_vars>>

\* line 248-250: one more iteration of the retry loop issues requests.get
StartRequest ==
    /\ pc = "attempt"
    /\ attempt' = attempt + 1
    /\ gap' = since_req
    /\ since_req' = 0
    /\ pc' = "in_flight"
    /\ UNCHANGED <<idx, ok, miss, csv, missed, since_tick, backoff, j,
                   all_retryable, fatal_seen, meta, meta_writes>>
    /\ UNCHANGED <<pipeline_vars, pad_vars, extract_vars, file_vars>>

\* History only: the failures the fetch client's contract calls retryable
\* (line 256 plus status 500, raised errors and undecodable bodies)
SpecRetryable(o) == Raised(o) \/ o.status \in {429, 403, 500, 502, 503, 504}

\* lines 250-264: the request ends; the call returns or sleeps and loops
Response(o, dur) ==
    /\ pc = "in_flight"
    /\ IF ReturnsJson(o)
       THEN /\ j' = o.body
            /\ pc' = "returned"
            /\ since_tick' = since_tick + dur
            /\ since_req' = since_req + dur
            /\ UNCHANGED backoff
       ELSE /\ since_tick' = since_tick + dur + SleepAfter(o, backoff)
            /\ since_req' = since_req + dur + SleepAfter(o, backoff)
            /\ backoff' = BackoffAfter(o, backoff)
            /\ IF attempt < tries
               THEN pc' = "attempt" /\ UNCHANGED j
               ELSE pc' = "returned" /\ j' = "None"
    /\ all_retryable' = (all_retryable /\ SpecRetryable(o))
    /\ fatal_seen' = (fatal_seen \/ (o.status # 200 /\ ~SpecRetryable(o)))
    /\ UNCHANGED <<idx, ok, miss, csv, missed, gap, attempt, meta, meta_writes>>
    /\ UNCHANGED <<pipeline_vars, pad_vars, extract_vars, file_vars>>

\* lines 312-317
ProcessResult ==
    /\ pc = "returned"
    /\ LET sym == sym_to_cik[idx][1]
       IN CASE j \in {"None", "falsy"} ->
                 /\ miss' = miss + 1
                 /\ missed' = Append(missed, sym)
                 /\ pc' = "loop"
                 /\ UNCHANGED <<ok, csv>>
            [] j = "dict" ->
                 /\ csv' = Append(csv, sym_to_cik[idx])
                 /\ ok' = ok + 1
                 /\ pc' = "loop"
                 /\ UNCHANGED <<miss, missed>>
            [] OTHER ->
                 \* j.get raises AttributeError, which nothing catches
                 /\ pc' = "aborted"
                 /\ UNCHANGED <<ok, miss, csv, missed>>
    /\ UNCHANGED <<idx, since_tick, since_req, gap, attempt, backoff, j,
                   all_retryable, fatal_seen, meta, meta_writes>>
    /\ UNCHANGED <<pipeline_vars, pad_vars, extract_vars, file_vars>>

\* lines 319-333
WriteMeta ==
    /\ pc = "loop"
    /\ idx = Len(sym_to_cik)
    /\ meta' = MetaRecord(eligible, sym_to_cik, ok, miss)
    /\ meta_writes' = meta_writes + 1
    /\ pc' = "done"
    /\ UNCHANGED <<idx, ok, miss, csv, missed, since_tick, since_req, gap,
                   attempt, backoff, j, all_retryable, fatal_seen>>
    /\ UNCHANGED <<pipeline_vars, pad_vars, extract_vars, file_vars>>

---------------------------------------------------------------------------
(* Inputs.                                                                 *)

Row(sym, ex, name, flags) ==
    [symbol |-> sym, exchange |-> ex, name |-> name, flags |-> flags]

NN == <<"N", "|", "N">>
ABC == <<"A", "B", "C">>
BC == <<"B", "C">>
CA == <<"C", "A">>

\* Rows parse_nasdaqlisted can return (the exchange is always "Nasdaq")
NasUniverse ==
    { Row(ABC, "Nasdaq", <<"ABC", "Corp">>, NN),
      Row(<<" ", "a", "b", "c">>, "Nasdaq", <<"ABC", "TRUST">>, NN),
      Row(ABC, "Nasdaq",
          <<"ABC", "Trust", "American", "Depositary", "Shares">>, NN),
      Row(BC, "Nasdaq", <<"BC", "American", "Depositary", "Shares">>, NN),
      Row(BC, "Nasdaq", <<"BC", "Corp">>, <<"Y", "|", "N">>),
      Row(<<"B", "C", "-", "U">>, "Nasdaq", <<"BC", "Corp">>, NN),
      Row(CA, "Nasdaq", <<"CA", "Corp">>, <<"N", "|", "y">>),
      Row(<<"C", " ", "A">>, "Nasdaq", <<"Help", "Corp">>, <<>>) }

\* Rows parse_otherlisted can return
OthUniverse ==
    { Row(ABC, "NYSE", <<"ABC", "Corp">>, NN),
      Row(ABC, "NYSE Arca", <<"ABC", "Corp">>, NN),
      Row(BC, "NYSE American", <<"BC", "Corp">>, <<"|">>),
      Row(CA, "NYSE", <<"CA", "Warrants">>, NN),
      Row(CA, "NYSE", <<"CA", "Limited", "Partnership">>, NN),
      Row(<<" ">>, "", <<>>, NN) }

TickerRec(a, b, c, t) == [cik_str |-> a, cik |-> b, cikStr |-> c, ticker |-> t]

Cik320193 == <<"3", "2", "0", "1", "9", "3">>
Cik77 == <<"7", "7">>

\* Records of company_tickers.json
RecUniverse ==
    { TickerRec(Cik320193, <<>>, <<>>, ABC),
      TickerRec(Cik320193, <<>>, <<>>, <<"a", "b", " ", "c">>),
      TickerRec(Cik320193, <<>>, <<>>, BC),
      TickerRec(<<>>, Cik77, <<>>, BC),
      TickerRec(<<>>, <<>>, <<"C", "I", "K", "-", "7", "7">>, CA),
      TickerRec(<<>>, <<>>, <<>>, CA),
      TickerRec(<<"n", "/", "a">>, <<>>, <<>>, CA),
      TickerRec(Cik77, <<>>, <<>>, <<>>) }

Shapes == {"dict", "list", "other"}

MaxNasRows == 2
MaxOthRows == 2
MaxRecs == 2

NoDoc == [cik |-> <<>>]

\* The state every specification starts the fetch loop and the other
\* programs' variables in
FetchStart ==
    /\ idx = 0
    /\ ok = 0
    /\ miss = 0
    /\ csv = <<>>
    /\ missed = <<>>
    /\ since_tick = 0
    /\ since_req = -1
    /\ gap = -1
    /\ attempt = 0
    /\ backoff = InitialBackoff
    /\ j = "None"
    /\ all_retryable = TRUE
    /\ fatal_seen = FALSE
    /\ meta = NoMeta
    /\ meta_writes = 0

\* A listing file: has_hdr is FALSE for a file without a non-blank line;
\* hdr is the first non-blank line split on "|", body the lines after it
NoFile == [has_hdr |-> FALSE, hdr |-> <<>>, body |-> <<>>]

FilesIdle == nas_file = NoFile /\ oth_file = NoFile

PipelineIdle ==
    /\ nas_rows = <<>>
    /\ oth_rows = <<>>
    /\ tickers_raw = [shape |-> "list", recs |-> <<>>]
    /\ eligible = <<>>
    /\ cik_to_ticker = <<>>
    /\ sym_to_cik = <<>>

PadIdle == raw = <<>> /\ padded = <<>> /\ padded_x = <<>>

ExtractIdle == doc = NoDoc /\ out_rows = <<>>

\* The listings and tables of the whole-run specification: up to three
\* eligible symbols, of which up to two are mapped
RunListings ==
    { <<<<>>, <<>>>>,
      <<<<Row(ABC, "Nasdaq", <<"ABC", "Corp">>, NN)>>,
        <<Row(ABC, "NYSE", <<"ABC", "Corp">>, NN)>>>>,
      <<<<Row(ABC, "Nasdaq", <<"ABC", "Corp">>, NN),
          Row(BC, "Nasdaq", <<"BC", "Corp">>, NN)>>,
        <<Row(CA, "NYSE", <<"CA", "Corp">>, NN)>>>> }

RunTables ==
    { [shape |-> "dict",
       recs |-> <<TickerRec(Cik320193, <<>>, <<>>, ABC),
                  TickerRec(<<>>, Cik77, <<>>, BC)>>],
      [shape |-> "list",
       recs |-> <<TickerRec(Cik320193, <<>>, <<>>, ABC)>>] }

\* main from its first line
Init ==
    /\ pc = "start"
    /\ \E l \in RunListings : nas_rows = l[1] /\ oth_rows = l[2]
    /\ tickers_raw \in RunTables
    /\ eligible = <<>>
    /\ cik_to_ticker = <<>>
    /\ sym_to_cik = <<>>
    /\ FetchStart
    /\ FilesIdle
    /\ PadIdle
    /\ ExtractIdle

Next ==
    \/ BuildEligible
    \/ LoadTickerMap
    \/ MakeSymbolToCik
    \/ Throttle
    \/ StartRequest
    \/ \E o \in Outcomes, dur \in Durations : Response(o, dur)
    \/ ProcessResult
    \/ WriteMeta

Spec == Init /\ [][Next]_vars

\* build_eligible_symbols on every pair of row lists within the bounds
InitEligible ==
    /\ pc = "start"
    /\ nas_rows \in SeqsUpTo(NasUniverse, MaxNasRows)
    /\ oth_rows \in SeqsUpTo(OthUniverse, MaxOthRows)
    /\ tickers_raw = [shape |-> "list", recs |-> <<>>]
    /\ eligible = <<>>
    /\ cik_to_ticker = <<>>
    /\ sym_to_cik = <<>>
    /\ FetchStart
    /\ FilesIdle
    /\ PadIdle
    /\ ExtractIdle

SpecEligible == InitEligible /\ [][BuildEligible]_vars

\* Eligible sets build_eligible_symbols can return
EligibleUniverse ==
    { <<>>, <<<<ABC, "Nasdaq">>>>, <<<<BC, "NYSE American">>>>,
      <<<<ABC, "NYSE">>, <<BC, "Nasdaq">>>>,
      <<<<CA, "NYSE">>, <<ABC, "Nasdaq">>, <<BC, "Nasdaq">>>> }

\* load_ticker_map and make_symbol_to_cik on every table within the bounds
InitMap ==
    /\ pc = "eligible"
    /\ nas_rows = <<>>
    /\ oth_rows = <<>>
    /\ eligible \in EligibleUniverse
    /\ \E sh \in Shapes, recs \in SeqsUpTo(RecUniverse, MaxRecs) :
           tickers_raw = [shape |-> sh, recs |-> recs]
    /\ cik_to_ticker = <<>>
    /\ sym_to_cik = <<>>
    /\ FetchStart
    /\ FilesIdle
    /\ PadIdle
    /\ ExtractIdle

NextMap == LoadTickerMap \/ MakeSymbolToCik

SpecMap == InitMap /\ [][NextMap]_vars

---------------------------------------------------------------------------
(* pad_cik10, both definitions.                                            *)

MaxDigits == 12
MaxZeros == 2

DigitSeq == <<"1", "2", "3", "4", "5", "6", "7", "8", "9", "0">>

\* The first k characters of 1234567890123...
DigitRun(k) == [i \in 1..k |-> DigitSeq[((i - 1) % 10) + 1]]

PadPrefixes == {<<>>, <<"C", "I", "K">>, <<" ">>, <<"0", "x">>}
PadSuffixes == {<<>>, <<"-", "x">>}

PadInputs ==
    {pre \o Zeros(z) \o DigitRun(k) \o suf :
        pre \in PadPrefixes, z \in 0..MaxZeros, k \in 0..MaxDigits,
        suf \in PadSuffixes}

InitPad ==
    /\ pc = "pad"
    /\ raw \in PadInputs
    /\ padded = <<>>
    /\ padded_x = <<>>
    /\ PipelineIdle
    /\ FetchStart
    /\ FilesIdle
    /\ ExtractIdle

PadCik ==
    /\ pc = "pad"
    /\ padded' = pad_cik10(raw)
    /\ padded_x' = pad_cik10_x(raw)
    /\ pc' = "padded"
    /\ UNCHANGED <<raw, pipeline_vars, fetch_vars, extract_vars, file_vars>>

SpecPad == InitPad /\ [][PadCik]_vars

---------------------------------------------------------------------------
(* extract_shares.py: extract_shares_from_file and the write loop of main. *)

Obs(isnum, v, end) == [num |-> isnum, val |-> v, end |-> end]

Date(y3, y4, m1, m2, d1, d2) ==
    <<"2", "0", y3, y4, "-", m1, m2, "-", d1, d2>>

End20231231 == Date("2", "3", "1", "2", "3", "1")
End20240331 == Date("2", "4", "0", "3", "3", "1")

\* Members of a units array: numeric and non-numeric val, present and
\* missing end
ObsUniverse ==
    { Obs(TRUE, 100, End20231231),
      Obs(TRUE, 110, End20240331),
      Obs(TRUE, 120, End20240331),
      Obs(FALSE, 0, End20240331),
      Obs(TRUE, 130, <<>>) }

MaxObs == 2

\* (j.get("ticker") or "").strip().upper()
UpperStrip(s) == Upper(Strip(s))

\* lines 123-132
DocCik(d) ==
    IF pad_cik10_x(d.cik) # <<>> THEN pad_cik10_x(d.cik)
    ELSE pad_cik10_x(d.file_cik)

DocTicker(d, ticker_map) ==
    IF UpperStrip(d.ticker) # <<>> THEN UpperStrip(d.ticker)
    ELSE IF DocCik(d) # <<>> THEN DictGet(ticker_map, DocCik(d))
    ELSE <<>>

\* lines 152-168: the rows of one units array
RECURSIVE RowsOfArr(_, _, _)
RowsOfArr(arr, ticker, cik) ==
    IF arr = <<>> THEN <<>>
    ELSE LET rec == Head(arr)
             rest == RowsOfArr(Tail(arr), ticker, cik)
         IN IF rec.num /\ rec.end # <<>> /\ ticker # <<>>
            THEN <<[symbol |-> ticker, cik |-> cik,
                    shares_outstanding |-> rec.val,
                    shares_asof |-> rec.end]>> \o rest
            ELSE rest

\* lines 147-151: the units of the candidate facts, in order
RECURSIVE RowsOfUnits(_, _, _)
RowsOfUnits(units, ticker, cik) ==
    IF units = <<>> THEN <<>>
    ELSE RowsOfArr(Head(units), ticker, cik)
         \o RowsOfUnits(Tail(units), ticker, cik)

\* d.dei and d.gaap are the unit arrays of dei.EntityCommonStockShares-
\* Outstanding and us-gaap.CommonStockSharesOutstanding (<<>>: fact absent)
extract_shares_from_file(d, ticker_map) ==
    RowsOfUnits(d.dei \o d.gaap, DocTicker(d, ticker_map), DocCik(d))

Docs ==
    {[cik |-> c, file_cik |-> Cik320193, ticker |-> t, dei |-> de, gaap |-> ga] :
        c \in {<<>>, Cik320193},
        t \in {<<>>, <<" ", "a", "b", "c">>},
        de \in SeqsUpTo(SeqsUpTo(ObsUniverse, MaxObs), 1),
        ga \in SeqsUpTo(SeqsUpTo(ObsUniverse, 1), 1)}

InitExtract ==
    /\ pc = "extract"
    /\ doc \in Docs
    /\ out_rows = <<>>
    /\ nas_rows = <<>>
    /\ oth_rows = <<>>
    /\ tickers_raw = [shape |-> "list", recs |-> <<>>]
    /\ eligible = <<>>
    /\ cik_to_ticker \in {<<>>, <<<<pad_cik10_x(Cik320193), BC>>>>}
    /\ sym_to_cik = <<>>
    /\ FetchStart
    /\ FilesIdle
    /\ PadIdle

\* main lines 188-193 for one file: every row returned is written
ExtractShares ==
    /\ pc = "extract"
    /\ out_rows' = extract_shares_from_file(doc, cik_to_ticker)
    /\ pc' = "extracted"
    /\ UNCHANGED <<doc, pipeline_vars, fetch_vars, pad_vars, file_vars>>

SpecExtract == InitExtract /\ [][ExtractShares]_vars

---------------------------------------------------------------------------
(* parse_nasdaqlisted and parse_otherlisted.                               *)

\* A line of the body: "blank" is dropped by "if ln.strip()", "trailer"
\* starts with "File Creation Time", "data" carries its cells (split on "|")
Line(kind, cells) == [kind |-> kind, cells |-> cells]

\* key in idx, where idx = {h: i for i, h in enumerate(hdr)}
InHeader(hdr, key) == \E i \in DOMAIN hdr : hdr[i] = key

\* idx[key] + 1: a column name that occurs twice maps to its last place
HeaderIdx(hdr, key) ==
    CHOOSE i \in DOMAIN hdr :
        hdr[i] = key /\ \A k \in (i + 1)..Len(hdr) : hdr[k] # key

\* col(cols, key, default); key "None" stands for a key find_key did not find
Col(hdr, cols, key, default) ==
    IF InHeader(hdr, key) /\ HeaderIdx(hdr, key) <= Len(cols)
    THEN cols[HeaderIdx(hdr, key)]
    ELSE default

\* lines 123-124
sym_candidates == <<"Symbol", "ACT Symbol", "CQS Symbol", "NASDAQ Symbol">>
name_candidates == <<"Security Name", "Company Name", "Security">>

\* lines 127-131
RECURSIVE find_key(_, _)
find_key(hdr, cands) ==
    IF cands = <<>> THEN "None"
    ELSE IF InHeader(hdr, Head(cands)) THEN Head(cands)
    ELSE find_key(hdr, Tail(cands))

\* f"{etf}|{test}"
FlagsOf(etf, test) == etf \o <<"|">> \o test

\* lines 95-99
NasdaqRow(hdr, cols) ==
    Row(Col(hdr, cols, "Symbol", <<>>), "Nasdaq",
        Col(hdr, cols, "Security Name", <<>>),
        FlagsOf(Col(hdr, cols, "ETF", <<"N">>),
                Col(hdr, cols, "Test Issue", <<"N">>)))

\* line 153
ExchangeOf(code) ==
    CASE code = <<"N">> -> "NYSE"
      [] code = <<"A">> -> "NYSE American"
      [] code = <<"P">> -> "NYSE Arca"
      [] OTHER -> ""

\* lines 147-154
OtherRow(hdr, cols) ==
    Row(Col(hdr, cols, find_key(hdr, sym_candidates), <<>>),
        ExchangeOf(Col(hdr, cols, "Exchange", <<>>)),
        Col(hdr, cols, find_key(hdr, name_candidates), <<>>),
        FlagsOf(Col(hdr, cols, "ETF", <<"N">>),
                Col(hdr, cols, "Test Issue", <<"N">>)))

\* lines 91-99: the rows up to the trailer
RECURSIVE NasdaqRows(_, _)
NasdaqRows(hdr, body) ==
    IF body = <<>> \/ Head(body).kind = "trailer" THEN <<>>
    ELSE IF Head(body).kind = "blank" THEN NasdaqRows(hdr, Tail(body))
    ELSE <<NasdaqRow(hdr, Head(body).cells)>> \o NasdaqRows(hdr, Tail(body))

\* lines 143-154
RECURSIVE OtherRows(_, _)
OtherRows(hdr, body) ==
    IF body = <<>> \/ Head(body).kind = "trailer" THEN <<>>
    ELSE IF Head(body).kind = "blank" THEN OtherRows(hdr, Tail(body))
    ELSE <<OtherRow(hdr, Head(body).cells)>> \o OtherRows(hdr, Tail(body))

\* parse_nasdaqlisted: no path raises
parse_nasdaqlisted(file) ==
    IF ~file.has_hdr THEN <<>> ELSE NasdaqRows(file.hdr, file.body)

\* lines 133-136: raise KeyError
OtherlistedRaises(file) ==
    file.has_hdr /\ find_key(file.hdr, sym_candidates) = "None"

\* parse_otherlisted when it returns
parse_otherlisted(file) ==
    IF ~file.has_hdr THEN <<>> ELSE OtherRows(file.hdr, file.body)

\* main line 278
ParseNasdaq ==
    /\ pc = "parse_nas"
    /\ nas_rows' = parse_nasdaqlisted(nas_file)
    /\ pc' = "parse_oth"
    /\ UNCHANGED <<oth_rows, tickers_raw, eligible, cik_to_ticker, sym_to_cik>>
    /\ UNCHANGED <<fetch_vars, pad_vars, extract_vars, file_vars>>

\* main line 279: the KeyError is caught nowhere and ends the run
ParseOther ==
    /\ pc = "parse_oth"
    /\ IF OtherlistedRaises(oth_file)
       THEN pc' = "parse_failed" /\ UNCHANGED oth_rows
       ELSE pc' = "start" /\ oth_rows' = parse_otherlisted(oth_file)
    /\ UNCHANGED <<nas_rows, tickers_raw, eligible, cik_to_ticker, sym_to_cik>>
    /\ UNCHANGED <<fetch_vars, pad_vars, extract_vars, file_vars>>

NasHeaders ==
    { <<"Symbol", "Security Name", "ETF", "Test Issue">>,
      <<"Ticker", "Security Name", "ETF", "Test Issue">>,
      <<"NASDAQ Symbol", "Security Name">>,
      <<"Symbol", "Security Name", "Symbol">> }

OthHeaders ==
    { <<"ACT Symbol", "Security Name", "Exchange", "ETF", "Test Issue">>,
      <<"Ticker", "Company Name", "Exchange">>,
      <<"CQS Symbol", "Symbol", "Security", "Exchange">>,
      <<"Exchange", "Security Name">> }

NasLines ==
    { Line("data", <<ABC, <<"ABC", "Corp">>, <<"N">>, <<"N">>>>),
      Line("data", <<BC, <<"BC", "Trust">>, <<"Y">>>>),
      Line("trailer", <<>>),
      Line("blank", <<>>) }

OthLines ==
    { Line("data", <<ABC, <<"ABC", "Corp">>, <<"N">>, <<"N">>, <<"N">>>>),
      Line("data", <<CA, BC, <<"CA", "Corp">>, <<"A">>>>),
      Line("trailer", <<>>),
      Line("blank", <<>>) }

MaxLines == 2

ListingFiles(headers, lines) ==
    {NoFile} \cup {[has_hdr |-> TRUE, hdr |-> h, body |-> b] :
                      h \in headers, b \in SeqsUpTo(lines, MaxLines)}

\* main lines 277-280 on every pair of listing files within the bounds
InitParse ==
    /\ pc = "parse_nas"
    /\ nas_file \in ListingFiles(NasHeaders, NasLines)
    /\ oth_file \in ListingFiles(OthHeaders, OthLines)
    /\ PipelineIdle
    /\ FetchStart
    /\ PadIdle
    /\ ExtractIdle

NextParse == ParseNasdaq \/ ParseOther

SpecParse == InitParse /\ [][NextParse]_vars

---------------------------------------------------------------------------
(* Claims.                                                                 *)

\* C1: the starts of any two consecutive outbound requests, retries
\* included, are at least per_request_delay apart.
C1_MinInterval == gap >= 0 => gap >= per_request_delay

\* C2: a call whose every attempt fails retryably issues exactly 6
\* requests, never more, and then returns None.
C2_ExactlyMaxAttempts ==
    /\ attempt <= 6
    /\ (pc = "returned" /\ all_retryable) => (attempt = 6 /\ j = "None")

C2_Witness ==
    /\ pc = "returned"
    /\ all_retryable
    /\ attempt = 6
    /\ backoff > InitialBackoff

\* C3: once an attempt got a status that is neither 200 nor retryable, the
\* call issues no further request: it is not about to start or in another
\* attempt.
C3_FatalStatusEndsCall == fatal_seen => pc \notin {"attempt", "in_flight"}

\* C4: no per-entity outcome aborts the run, the metadata is written at
\* most once and only after the last entity was processed.
C4_RunNeverAborts ==
    /\ pc # "aborted"
    /\ meta_writes <= 1
    /\ meta.written => (pc = "done" /\ idx = Len(sym_to_cik))

\* C5: after each loop iteration ok + miss is the number of entities
\* processed; the metadata has rows_written + rows_missing = symbols_mapped
\* <= eligible, and every eligible symbol is in exactly one of: written,
\* unmapped, fetch-missing.
C5_CountersAccount ==
    /\ pc = "loop" => ok + miss = idx
    /\ pc = "done" =>
         /\ meta.rows_written + meta.rows_missing = meta.symbols_mapped
         /\ meta.symbols_mapped <= meta.eligible
         /\ meta.rows_written = Len(csv)
         /\ meta.rows_missing = Len(missed)
         /\ meta.eligible - meta.rows_written
              = (Len(eligible) - Len(sym_to_cik)) + meta.rows_missing
         /\ \A i \in DOMAIN eligible :
              LET sym == eligible[i][1]
                  written == \E k \in DOMAIN csv : csv[k][1] = sym
                  fetch_missing == \E k \in DOMAIN missed : missed[k] = sym
                  unmapped == sym \notin DictKeys(sym_to_cik)
              IN /\ written \/ fetch_missing \/ unmapped
                 /\ ~(written /\ fetch_missing)
                 /\ ~(written /\ unmapped)
                 /\ ~(fetch_missing /\ unmapped)

C5_Witness ==
    /\ pc = "done"
    /\ ok > 0
    /\ miss > 0
    /\ Len(eligible) > Len(sym_to_cik)

\* C6: every eligible symbol equal to the normalized ticker of a table
\* record with a non-empty identifier is a key of the symbol-to-identifier
\* mapping.
C6_EveryTableSymbolMapped ==
    pc = "loop" =>
      \A i \in DOMAIN eligible :
        (/\ tickers_raw.shape \in {"dict", "list"}
         /\ \E k \in DOMAIN tickers_raw.recs :
              LET rec == tickers_raw.recs[k]
              IN /\ Filter(RecCik(rec), AsciiDigits) # <<>>
                 /\ rec.ticker # <<>>
                 /\ norm_symbol(rec.ticker) = norm_symbol(eligible[i][1]))
        => eligible[i][1] \in DictKeys(sym_to_cik)

\* Order of the characters of an ISO date
CharOrd(c) ==
    CASE c = "-" -> 0
      [] c = "0" -> 1
      [] c = "1" -> 2
      [] c = "2" -> 3
      [] c = "3" -> 4
      [] c = "4" -> 5
      [] c = "5" -> 6
      [] c = "6" -> 7
      [] c = "7" -> 8
      [] c = "8" -> 9
      [] OTHER -> 10

RECURSIVE LexLeq(_, _)
LexLeq(a, b) ==
    IF a = <<>> THEN TRUE
    ELSE IF b = <<>> THEN FALSE
    ELSE IF Head(a) = Head(b) THEN LexLeq(Tail(a), Tail(b))
    ELSE CharOrd(Head(a)) < CharOrd(Head(b))

RECURSIVE Flatten(_)
Flatten(units) ==
    IF units = <<>> THEN <<>> ELSE Head(units) \o Flatten(Tail(units))

ValidObs(d) ==
    {o \in Range(Flatten(d.dei \o d.gaap)) : o.num /\ o.end # <<>>}

\* C7: the extraction yields at most one record for the entity, the valid
\* observation with the lexicographically maximal end date.
C7_LatestObservationOnly ==
    pc = "extracted" =>
      /\ Len(out_rows) <= 1
      /\ \A i \in DOMAIN out_rows :
           \A o \in ValidObs(doc) : LexLeq(o.end, out_rows[i].shares_asof)

Combined == nas_rows \o oth_rows

SymAt(i) == norm_symbol(Combined[i].symbol)

\* The first row of the combined input that carries the symbol
FirstIdx(sym) ==
    CHOOSE i \in DOMAIN Combined :
        SymAt(i) = sym /\ \A k \in 1..(i - 1) : SymAt(k) # sym

\* The first row of the combined input that carries the symbol and passes
\* the exclusion filters
FirstKeptIdx(sym) ==
    CHOOSE i \in DOMAIN Combined :
        /\ SymAt(i) = sym
        /\ KeepsRow(Combined[i])
        /\ \A k \in 1..(i - 1) : ~(SymAt(k) = sym /\ KeepsRow(Combined[k]))

NoDuplicateSymbols ==
    \A i, k \in DOMAIN eligible : i # k => eligible[i][1] # eligible[k][1]

\* C8 as stated: unique symbols, in the order the symbols are first
\* encountered in the combined input, each with the exchange of the
\* symbol's first occurrence there.
C8_FirstOccurrence ==
    pc = "eligible" =>
      /\ NoDuplicateSymbols
      /\ \A i \in DOMAIN eligible :
           /\ \E k \in DOMAIN Combined : SymAt(k) = eligible[i][1]
           /\ eligible[i][2] = Combined[FirstIdx(eligible[i][1])].exchange
      /\ \A i, k \in DOMAIN eligible :
           i < k => FirstIdx(eligible[i][1]) < FirstIdx(eligible[k][1])

\* C8 amended: unique symbols; exactly the symbols of the rows that pass
\* the exclusion filters, in the order of their first passing row, each
\* with the exchange of that row.
C8_FirstKeptOccurrence ==
    pc = "eligible" =>
      /\ NoDuplicateSymbols
      /\ \A k \in DOMAIN Combined :
           KeepsRow(Combined[k]) =>
             \E i \in DOMAIN eligible : eligible[i][1] = SymAt(k)
      /\ \A i \in DOMAIN eligible :
           /\ \E k \in DOMAIN Combined :
                SymAt(k) = eligible[i][1] /\ KeepsRow(Combined[k])
           /\ eligible[i][2] = Combined[FirstKeptIdx(eligible[i][1])].exchange
      /\ \A i, k \in DOMAIN eligible :
           i < k => FirstKeptIdx(eligible[i][1]) < FirstKeptIdx(eligible[k][1])

\* A symbol with three rows: the first is dropped by the filters, the next
\* two pass with different exchanges, and the entry is that of the second
C8_Witness ==
    /\ pc = "eligible"
    /\ \E a, b, c \in DOMAIN Combined :
         /\ a < b /\ b < c
         /\ SymAt(a) = SymAt(b) /\ SymAt(b) = SymAt(c)
         /\ ~KeepsRow(Combined[a])
         /\ KeepsRow(Combined[b]) /\ KeepsRow(Combined[c])
         /\ Combined[b].exchange # Combined[c].exchange
         /\ <<SymAt(b), Combined[b].exchange>> \in Range(eligible)

LowerName(name) == {LowerWord(name[i]) : i \in DOMAIN name}

IndicatesAds(name) ==
    /\ {"american", "depositary"} \subseteq LowerName(name)
    /\ LowerName(name) \cap {"share", "shares"} # {}

IndicatesPreferredOrNotes(name) ==
    LowerName(name) \cap {"preferred", "notes"} # {}

\* C9: a row on an allowed exchange, not flagged ETF or test, no warrant /
\* right / unit, whose name matches the fund vocabulary but indicates
\* American Depositary Shares and neither Preferred nor Notes, is kept.
C9_AdrCarveOut ==
    pc = "eligible" =>
      \A k \in DOMAIN Combined :
        LET row == Combined[k]
        IN (/\ row.exchange \in AllowedExchanges
            /\ SymAt(k) # <<>>
            /\ Upper(EtfFlag(row.flags)) # <<"Y">>
            /\ Upper(TestFlag(row.flags)) # <<"Y">>
            /\ ~is_right_warrant_unit(row.name, SymAt(k))
            /\ is_extra_fundlike(row.name)
            /\ IndicatesAds(row.name)
            /\ ~IndicatesPreferredOrNotes(row.name))
           => \E i \in DOMAIN eligible : eligible[i][1] = SymAt(k)

RECURSIVE StripZeros(_)
StripZeros(s) ==
    IF s # <<>> /\ Head(s) = "0" THEN StripZeros(Tail(s)) ELSE s

\* The result the specification requires of pad_cik10 for input v
PadAsSpecified(v, result) ==
    LET s == Filter(v, AsciiDigits)
    IN IF s = <<>> THEN result = <<>>
       ELSE /\ Len(result) = 10
            /\ Range(result) \subseteq AsciiDigits
            /\ StripZeros(result) = StripZeros(s)

\* C10: pad_cik10 returns 10 ASCII digits of the same numeric value as the
\* digits of its input, and the empty string when the input has no digit.
C10_PadCik10 ==
    pc = "padded" => PadAsSpecified(raw, padded) /\ PadAsSpecified(raw, padded_x)

\* The header row has no column named by a synonym of the symbol column
NoSymbolColumn(file) ==
    file.has_hdr /\ \A i \in DOMAIN sym_candidates :
                       ~InHeader(file.hdr, sym_candidates[i])

\* C11: a listing file whose header has no symbol column makes its parser
\* fail: the run stops there with an error and the file gives no records.
C11_MissingSymbolColumnFails ==
    /\ (pc # "parse_nas" /\ NoSymbolColumn(nas_file)) =>
         (pc = "parse_failed" /\ nas_rows = <<>>)
    /\ (pc \notin {"parse_nas", "parse_oth"} /\ NoSymbolColumn(oth_file)) =>
         (pc = "parse_failed" /\ oth_rows = <<>>)

====
